---- MODULE Spec2Model ----
(***************************************************************************)
(* Model of main.py: the invoice pipeline (process_pdf_folder with         *)
(* extract_invoice_number_from_pdf and merge_pdfs), the JPEG pipeline      *)
(* (convert_jpegs_to_pdf) and the main section that runs one after the     *)
(* other.  Strings are sequences of one-character strings, so that the     *)
(* regular expressions, the extension tests and the file-name formatting   *)
(* are computed character by character as the code computes them.          *)
(***************************************************************************)
EXTENDS Integers, Sequences, FiniteSets, TLC

(* ------------------------------------------------------------------ *)
(* Characters and strings                                              *)
(* ------------------------------------------------------------------ *)

UpperLetters == <<"A","B","C","D","E","F","G","H","I","J","K","L","M",
                  "N","O","P","Q","R","S","T","U","V","W","X","Y","Z">>

LowerLetters == <<"a","b","c","d","e","f","g","h","i","j","k","l","m",
                  "n","o","p","q","r","s","t","u","v","w","x","y","z">>

Range(s) == {s[i] : i \in DOMAIN s}

Digits == {"0","1","2","3","4","5","6","7","8","9"}

\* \d of the re module, on the ASCII characters the model uses
IsDigit(c) == c \in Digits

WordChars == Digits \cup Range(UpperLetters) \cup Range(LowerLetters) \cup {"_"}

\* \w of the re module: letters, digits and the underscore
IsWordChar(c) == c \in WordChars

UpperSet == Range(UpperLetters)

\* str.lower() on one character
LowerChar(c) ==
    IF c \in UpperSet
    THEN LowerLetters[CHOOSE i \in DOMAIN UpperLetters : UpperLetters[i] = c]
    ELSE c

\* str.lower()
Lower(s) == [i \in DOMAIN s |-> LowerChar(s[i])]

\* str.endswith(suffix)
EndsWith(s, suffix) ==
    /\ Len(s) >= Len(suffix)
    /\ SubSeq(s, Len(s) - Len(suffix) + 1, Len(s)) = suffix

\* the absent value: Python's None.  A regular-expression match is never
\* empty, so the empty string stands for None without confusion.
None == <<>>

ExtPdf  == <<".","p","d","f">>
ExtJpg  == <<".","j","p","g">>
ExtJpeg == <<".","j","p","e","g">>

\* os.path.join(a, b) for a relative b
Join(a, b) == a \o <<"/">> \o b

\* position of the last "/" of p, 0 when there is none
LastSlash(p) ==
    IF \E i \in DOMAIN p : p[i] = "/"
    THEN CHOOSE i \in DOMAIN p : p[i] = "/" /\ \A j \in DOMAIN p : p[j] = "/" => j <= i
    ELSE 0

\* os.path.basename(p)
Basename(p) == SubSeq(p, LastSlash(p) + 1, Len(p))

\* os.path.dirname(p)
Dirname(p) == SubSeq(p, 1, LastSlash(p) - 1)

\* os.path.splitext(name)[0] for a file name without directory part: the
\* name up to its last dot, the whole name when it has no dot or when its
\* only dots lead it
SplitextStem(name) ==
    LET dots == {i \in DOMAIN name : name[i] = "."}
        last == CHOOSE i \in dots : \A j \in dots : j <= i
    IN  IF dots = {} THEN name
        ELSE IF \A j \in 1..(last - 1) : name[j] = "." THEN name
        ELSE SubSeq(name, 1, last - 1)

\* str(n) for a counter 1..99
DigitStr == <<"0","1","2","3","4","5","6","7","8","9">>
IntToStr(n) ==
    IF n < 10 THEN <<DigitStr[n + 1]>>
    ELSE <<DigitStr[(n \div 10) + 1], DigitStr[(n % 10) + 1]>>

(* ------------------------------------------------------------------ *)
(* The two regular expressions                                         *)
(* ------------------------------------------------------------------ *)

\* whether RE-\d{4}-\d{2} matches text at position i
InvoiceMatchAt(text, i) ==
    /\ i + 9 <= Len(text)
    /\ text[i] = "R" /\ text[i + 1] = "E" /\ text[i + 2] = "-"
    /\ \A k \in 3..6 : IsDigit(text[i + k])
    /\ text[i + 7] = "-"
    /\ IsDigit(text[i + 8]) /\ IsDigit(text[i + 9])

\* invoice_regex.search(text), then match.group(0): the leftmost match
SearchInvoice(text) ==
    LET hits == {i \in DOMAIN text : InvoiceMatchAt(text, i)}
        first == CHOOSE i \in hits : \A j \in hits : i <= j
    IN  IF hits = {} THEN None ELSE SubSeq(text, first, first + 9)

\* \b between positions i-1 and i of text (i in 1..Len+1)
WordBoundary(text, i) ==
    LET before == i > 1 /\ IsWordChar(text[i - 1])
        after  == i <= Len(text) /\ IsWordChar(text[i])
    IN  before # after

IsDateSep(c) == c \in {".", "/", "-"}

\* whether \b\d{a}[./-]\d{b}[./-]\d{c}\b matches text at position i with
\* the three repetition counts a, b, c
DateMatchWith(text, i, a, b, c) ==
    LET n == a + 1 + b + 1 + c
    IN  /\ i + n - 1 <= Len(text)
        /\ WordBoundary(text, i)
        /\ \A k \in 0..(a - 1) : IsDigit(text[i + k])
        /\ IsDateSep(text[i + a])
        /\ \A k \in 1..b : IsDigit(text[i + a + k])
        /\ IsDateSep(text[i + a + b + 1])
        /\ \A k \in 1..c : IsDigit(text[i + a + b + 1 + k])
        /\ WordBoundary(text, i + n)

\* the repetition counts the backtracking matcher tries, greediest first
DateTries ==
    <<  <<2, 2, 4>>, <<2, 2, 3>>, <<2, 2, 2>>, <<2, 1, 4>>, <<2, 1, 3>>, <<2, 1, 2>>,
        <<1, 2, 4>>, <<1, 2, 3>>, <<1, 2, 2>>, <<1, 1, 4>>, <<1, 1, 3>>, <<1, 1, 2>> >>

\* length of the match of the date pattern at position i, 0 when none
DateMatchLen(text, i) ==
    LET ok == {t \in DOMAIN DateTries :
                  DateMatchWith(text, i, DateTries[t][1], DateTries[t][2], DateTries[t][3])}
        t1 == CHOOSE t \in ok : \A u \in ok : t <= u
    IN  IF ok = {} THEN 0
        ELSE DateTries[t1][1] + DateTries[t1][2] + DateTries[t1][3] + 2

\* date_regex.search(text), then date_match.group(0): the leftmost match
SearchDate(text) ==
    LET hits == {i \in DOMAIN text : DateMatchLen(text, i) > 0}
        first == CHOOSE i \in hits : \A j \in hits : i <= j
    IN  IF hits = {} THEN None
        ELSE SubSeq(text, first, first + DateMatchLen(text, first) - 1)

(* ------------------------------------------------------------------ *)
(* The files of the folder                                             *)
(* ------------------------------------------------------------------ *)

\* the folder given on the command line (sys.argv[1])
FolderPath == <<"d">>

\* OCR texts of pages and images
TxtNone   == <<"T","o","t","a","l"," ","1","2">>
TxtA      == <<"N","r"," ","R","E","-","2","0","2","4","-","0","1"," ","x">>
TxtB      == <<"R","E","-","2","0","2","4","-","0","2">>
TxtC      == <<"R","E","-","2","0","2","4","-","0","3","9">>
TxtBA     == TxtB \o <<" ">> \o TxtA
TxtLower  == <<"r","e","-","2","0","2","4","-","0","1">>
TxtShort  == <<"R","E","-","2","0","2","4","-","1">>
TxtLong   == <<"R","E","-","2","0","2","4","5","-","0","1">>
DateDot   == <<"1","9",".","1","1",".","2","0","2","4">>
DateDash  == <<"1","9","-","1","1","-","2","0","2","4">>
DateSlash == <<"1","9","/","1","1","/","2","0","2","4">>
TxtDot    == <<"a","m"," ">> \o DateDot \o <<" ","R","E","-","1">>
TxtDot2   == DateDot \o <<"\n">> \o DateDash
TxtGlued  == <<"x">> \o DateDot

\* a page (or an image) as the OCR collaborator sees it: pytesseract
\* returns its text, or raises
Page(t)  == [ok |-> TRUE, text |-> t]
OcrFails == [ok |-> FALSE, text |-> <<>>]

\* a directory entry of the folder: its name, whether os.path.isfile holds,
\* whether convert_from_path rasterises it, its pages in order (an image
\* has one) and whether Image.open opens it
File(name, pages) ==
    [name |-> name, isfile |-> TRUE, raster |-> TRUE, pages |-> pages, opens |-> TRUE]

(* ------------------------------------------------------------------ *)
(* extract_invoice_number_from_pdf                                     *)
(* ------------------------------------------------------------------ *)

\* ScanPages without the break of line 44: every page is passed to OCR and
\* the last match is kept
RECURSIVE ScanPagesNoBreak(_, _, _)
ScanPagesNoBreak(pages, i, calls) ==
    IF i > Len(pages)
    THEN [invoice_number |-> None, ocr |-> calls, error |-> ""]
    ELSE IF ~pages[i].ok
    THEN [invoice_number |-> None, ocr |-> Append(calls, i), error |-> "image_to_string"]
    ELSE LET rest == ScanPagesNoBreak(pages, i + 1, Append(calls, i))
         IN  IF rest.invoice_number = None /\ rest.error = ""
             THEN [rest EXCEPT !.invoice_number = SearchInvoice(pages[i].text)]
             ELSE rest

\* the for loop over the pages from page i on, calls being the pages
\* already passed to pytesseract.  An OCR exception leaves the loop for
\* the except clause of the function, which prints and falls through to
\* the return with invoice_number still None.
RECURSIVE ScanPages(_, _, _)
ScanPages(pages, i, calls) ==
    IF i > Len(pages)
    THEN [invoice_number |-> None, ocr |-> calls, error |-> ""]
    ELSE IF ~pages[i].ok
    THEN [invoice_number |-> None, ocr |-> Append(calls, i), error |-> "image_to_string"]
    ELSE IF SearchInvoice(pages[i].text) # None
    THEN [invoice_number |-> SearchInvoice(pages[i].text),
          ocr |-> Append(calls, i), error |-> ""]
    ELSE ScanPages(pages, i + 1, Append(calls, i))

\* extract_invoice_number_from_pdf(pdf_path) on the file f at that path:
\* the returned invoice number, the pages passed to OCR in call order and
\* the exception "Error processing ..." was printed for ("" when none)
ExtractInvoiceNumberFromPdf(f) ==
    IF ~f.raster
    THEN [invoice_number |-> None, ocr |-> <<>>, error |-> "convert_from_path"]
    ELSE ScanPages(f.pages, 1, <<>>)

(* ------------------------------------------------------------------ *)
(* State                                                               *)
(* ------------------------------------------------------------------ *)

VARIABLES
    pc,                 \* the statement the run is at
    entry,              \* what was invoked: the script, or one function
    argv,               \* sys.argv
    listing,            \* the folder's entries in os.listdir order
    console,            \* the lines printed so far
    invoice_groups,     \* the dict of process_pdf_folder, in insertion order
    unprocessed_files,  \* list of process_pdf_folder
    unpaired_files,     \* list of process_pdf_folder
    scan_i,             \* position of the scan loop in listing
    group_i,            \* position of the loop over invoice_groups.items()
    fs,                 \* the regular files written or found: path -> content
    dirs,               \* the directories that exist
    log_file,           \* log.txt
    jpeg_files,         \* list of convert_jpegs_to_pdf
    jpeg_i,             \* position of the loop over jpeg_files
    pdf_in,             \* argument of a direct call of the extraction
    pdf_out             \* its result

vars == <<pc, entry, argv, listing, console, invoice_groups, unprocessed_files,
          unpaired_files, scan_i, group_i, fs, dirs, log_file, jpeg_files,
          jpeg_i, pdf_in, pdf_out>>

pdfVars  == <<invoice_groups, unprocessed_files, unpaired_files, scan_i, group_i, log_file>>
jpegVars == <<jpeg_files, jpeg_i>>
callVars == <<pdf_in, pdf_out>>

\* one printed line: its fixed text and the value formatted into it
Msg(m, a) == [msg |-> m, arg |-> a, out |-> <<>>, err |-> ""]

\* a printed line with two values formatted into it
Msg2(m, a, o) == [msg |-> m, arg |-> a, out |-> o, err |-> ""]

\* a line an except clause prints: the path and the exception, which is
\* named here by the call that raised it
Err(m, a, e) == [msg |-> m, arg |-> a, out |-> <<>>, err |-> e]

OutputFolder     == Join(FolderPath, <<"o","u","t","p","u","t","_","p","d","f","s">>)
JpegOutputFolder == Join(FolderPath, <<"j","p","e","g","_","o","u","t","p","u","t","_","p","d","f","s">>)
LogPath          == Join(FolderPath, <<"l","o","g",".","t","x","t">>)

\* the entry of the folder a path names
FileAt(path) == CHOOSE f \in Range(listing) : f.name = Basename(path)

\* fs with path holding content
WriteFile(files, path, content) ==
    [p \in (DOMAIN files) \cup {path} |-> IF p = path THEN content ELSE files[p]]

\* os.path.exists
PathExists(path) == path \in DOMAIN fs \/ path \in dirs

\* an exception no handler catches: the interpreter prints the traceback
\* and the process ends
Uncaught(what) ==
    /\ pc' = "crashed"
    /\ console' = Append(console, Err("Traceback", None, what))

\* the return of a pipeline function to the main section, which runs
\* next when it was the script that was invoked
Return(next) == IF entry = "main" THEN next ELSE "returned"

(* ------------------------------------------------------------------ *)
(* merge_pdfs                                                          *)
(* ------------------------------------------------------------------ *)

\* what reading one source PDF can do: every page is added, or PdfReader
\* or add_page raises after some of the pages were added
ReadOutcomes(f) ==
    {[added |-> Len(f.pages), failed |-> FALSE]}
        \cup {[added |-> k, failed |-> TRUE] : k \in 0..(Len(f.pages) - 1)}
        \cup {[added |-> 0, failed |-> TRUE]}

\* what writing the output can do: it is written; open raises; or the
\* file is opened (created or truncated) and the write raises
WriteOutcomes == {"ok", "open_fails", "write_fails"}

\* the pages of one source that pdf_writer.add_page received
PagesAdded(path, n) == [k \in 1..n |-> [src |-> path, idx |-> k]]

\* WriterPages with the sources taken last to first
RECURSIVE WriterPagesReversed(_, _, _)
WriterPagesReversed(pdf_paths, reads, i) ==
    IF i > Len(pdf_paths) THEN <<>>
    ELSE WriterPagesReversed(pdf_paths, reads, i + 1) \o PagesAdded(pdf_paths[i], reads[i].added)

\* the pages of pdf_writer after the loop over pdf_paths from i on
RECURSIVE WriterPages(_, _, _)
WriterPages(pdf_paths, reads, i) ==
    IF i > Len(pdf_paths) THEN <<>>
    ELSE PagesAdded(pdf_paths[i], reads[i].added) \o WriterPages(pdf_paths, reads, i + 1)

\* the "Error reading" lines of the loop over pdf_paths from i on
RECURSIVE ReadErrors(_, _, _)
ReadErrors(pdf_paths, reads, i) ==
    IF i > Len(pdf_paths) THEN <<>>
    ELSE (IF reads[i].failed THEN <<Err("Error reading", pdf_paths[i], "PdfReader")>> ELSE <<>>)
            \o ReadErrors(pdf_paths, reads, i + 1)

\* MergePdfs giving up the output as soon as one source cannot be read
MergePdfsGivesUp(pdf_paths, output_pdf_path, reads, write) ==
    IF \E i \in DOMAIN reads : reads[i].failed
    THEN [fs |-> fs, console |-> console \o ReadErrors(pdf_paths, reads, 1)]
    ELSE [fs |-> WriteFile(fs, output_pdf_path,
                    [pages |-> WriterPages(pdf_paths, reads, 1), complete |-> TRUE]),
          console |-> Append(console, Msg("Created merged PDF", output_pdf_path))]

\* merge_pdfs(pdf_paths, output_pdf_path): the files and the lines
\* printed after the call
MergePdfs(pdf_paths, output_pdf_path, reads, write) ==
    [fs |-> CASE write = "ok" ->
                    WriteFile(fs, output_pdf_path,
                              [pages |-> WriterPages(pdf_paths, reads, 1), complete |-> TRUE])
              [] write = "write_fails" ->
                    WriteFile(fs, output_pdf_path, [pages |-> <<>>, complete |-> FALSE])
              [] OTHER -> fs,
     console |-> console \o ReadErrors(pdf_paths, reads, 1)
                    \o <<IF write = "ok" THEN Msg("Created merged PDF", output_pdf_path)
                          ELSE Err("Error writing PDF", output_pdf_path, write)>>]

(* ------------------------------------------------------------------ *)
(* process_pdf_folder                                                  *)
(* ------------------------------------------------------------------ *)

\* the test of line 81 on a directory entry
IsPdfFile(f) == f.isfile /\ EndsWith(Lower(f.name), ExtPdf)

\* SetDefaultAppend with the list of the key assigned instead of appended to
SetDefaultAssign(groups, invoice_num, file_path) ==
    IF \E i \in DOMAIN groups : groups[i].key = invoice_num
    THEN [i \in DOMAIN groups |->
            IF groups[i].key = invoice_num
            THEN [groups[i] EXCEPT !.files = <<file_path>>]
            ELSE groups[i]]
    ELSE Append(groups, [key |-> invoice_num, files |-> <<file_path>>])

\* invoice_groups.setdefault(invoice_num, []).append(file_path) on the
\* insertion-ordered dict
SetDefaultAppend(groups, invoice_num, file_path) ==
    IF \E i \in DOMAIN groups : groups[i].key = invoice_num
    THEN [i \in DOMAIN groups |->
            IF groups[i].key = invoice_num
            THEN [groups[i] EXCEPT !.files = Append(@, file_path)]
            ELSE groups[i]]
    ELSE Append(groups, [key |-> invoice_num, files |-> <<file_path>>])

\* IsMergeable with the threshold at one file
IsMergeableAlone(pdf_list) == Len(pdf_list) >= 1

\* the test of line 96
IsMergeable(pdf_list) == Len(pdf_list) >= 2

\* f"Invoice_{invoice_num}.pdf" joined to the output folder
MergedPath(invoice_num) ==
    Join(OutputFolder, <<"I","n","v","o","i","c","e","_">> \o invoice_num \o ExtPdf)

\* LogLines with the unpaired files written before the unidentified ones
LogLinesUnpairedFirst(unprocessed, unpaired) ==
    <<[prefix |-> "Files without an identifiable invoice number or not paired:",
       id |-> None, fname |-> None]>>
        \o [i \in DOMAIN unpaired |->
                [prefix |-> "Unpaired for invoice", id |-> unpaired[i][1], fname |-> unpaired[i][2]]]
        \o [i \in DOMAIN unprocessed |->
                [prefix |-> "No invoice found", id |-> None, fname |-> unprocessed[i]]]

\* the lines written to log.txt, in the order they are written
LogLines(unprocessed, unpaired) ==
    <<[prefix |-> "Files without an identifiable invoice number or not paired:",
       id |-> None, fname |-> None]>>
        \o [i \in DOMAIN unprocessed |->
                [prefix |-> "No invoice found", id |-> None, fname |-> unprocessed[i]]]
        \o [i \in DOMAIN unpaired |->
                [prefix |-> "Unpaired for invoice", id |-> unpaired[i][1], fname |-> unpaired[i][2]]]

\* line 79: os.listdir(folder_path), which raises when the folder cannot
\* be listed; nothing catches it
PdfListDir ==
    /\ pc = "pdf_listdir"
    /\ \E ok \in BOOLEAN :
        IF ok
        THEN /\ pc' = "scan"
             /\ scan_i' = 1
             /\ invoice_groups' = <<>>
             /\ unprocessed_files' = <<>>
             /\ UNCHANGED console
        ELSE /\ Uncaught("os.listdir")
             /\ UNCHANGED <<scan_i, invoice_groups, unprocessed_files>>
    /\ UNCHANGED <<entry, argv, listing, unpaired_files, group_i, fs, dirs, log_file>>
    /\ UNCHANGED <<jpegVars, callVars>>

\* lines 79-88: one iteration of the scan loop
ScanFile ==
    /\ pc = "scan"
    /\ scan_i <= Len(listing)
    /\ LET f == listing[scan_i]
           file_path == Join(FolderPath, f.name)
           r == ExtractInvoiceNumberFromPdf(FileAt(file_path))
       IN  IF IsPdfFile(f)
           THEN /\ console' = IF r.error # ""
                              THEN Append(console, Err("Error processing", file_path, r.error))
                              ELSE console
                /\ IF r.invoice_number # None
                   THEN /\ invoice_groups' =
                              SetDefaultAppend(invoice_groups, r.invoice_number, file_path)
                        /\ UNCHANGED unprocessed_files
                   ELSE /\ unprocessed_files' = Append(unprocessed_files, f.name)
                        /\ UNCHANGED invoice_groups
           ELSE UNCHANGED <<console, invoice_groups, unprocessed_files>>
    /\ scan_i' = scan_i + 1
    /\ UNCHANGED <<pc, entry, argv, listing, unpaired_files, group_i, fs, dirs, log_file>>
    /\ UNCHANGED <<jpegVars, callVars>>

\* lines 90-94: the end of the scan loop, the output folder
PdfMakeOutputFolder ==
    /\ pc = "scan"
    /\ scan_i > Len(listing)
    /\ \E ok \in BOOLEAN :
        IF PathExists(OutputFolder) \/ ok
        THEN /\ dirs' = IF PathExists(OutputFolder) THEN dirs ELSE dirs \cup {OutputFolder}
             /\ pc' = "groups"
             /\ unpaired_files' = <<>>
             /\ group_i' = 1
             /\ UNCHANGED console
        ELSE /\ Uncaught("os.makedirs")
             /\ UNCHANGED <<dirs, unpaired_files, group_i>>
    /\ UNCHANGED <<entry, argv, listing, invoice_groups, unprocessed_files, scan_i, fs, log_file>>
    /\ UNCHANGED <<jpegVars, callVars>>

\* lines 95-102: one iteration of the loop over the groups
GroupStep ==
    /\ pc = "groups"
    /\ group_i <= Len(invoice_groups)
    /\ LET invoice_num == invoice_groups[group_i].key
           pdf_list == invoice_groups[group_i].files
       IN  IF IsMergeable(pdf_list)
           THEN \E reads \in [DOMAIN pdf_list -> UNION {ReadOutcomes(FileAt(p)) : p \in Range(pdf_list)}],
                   write \in WriteOutcomes :
                    /\ \A i \in DOMAIN pdf_list : reads[i] \in ReadOutcomes(FileAt(pdf_list[i]))
                    /\ fs' = MergePdfs(pdf_list, MergedPath(invoice_num), reads, write).fs
                    /\ console' = MergePdfs(pdf_list, MergedPath(invoice_num), reads, write).console
                    /\ UNCHANGED unpaired_files
           ELSE /\ unpaired_files' = unpaired_files \o
                        [i \in DOMAIN pdf_list |-> <<invoice_num, Basename(pdf_list[i])>>]
                /\ UNCHANGED <<fs, console>>
    /\ group_i' = group_i + 1
    /\ UNCHANGED <<pc, entry, argv, listing, invoice_groups, unprocessed_files, scan_i, dirs, log_file>>
    /\ UNCHANGED <<jpegVars, callVars>>

\* lines 104-111: log.txt.  open raises when the file cannot be opened
\* for writing (n = -1, no file); a log_file.write raises after n lines
\* were written (the file, created by open, holds those n lines); or all
\* lines are written (n = Len(lines)).  Nothing catches either exception
WriteLog ==
    /\ pc = "groups"
    /\ group_i > Len(invoice_groups)
    /\ LET lines == LogLines(unprocessed_files, unpaired_files)
       IN  \E n \in -1..Len(lines) :
            IF n = Len(lines)
            THEN /\ log_file' = [written |-> TRUE, lines |-> lines]
                 /\ console' = Append(console, Msg("Log file created at", LogPath))
                 /\ pc' = Return("jpeg_listdir")
            ELSE IF n >= 0
            THEN /\ log_file' = [written |-> TRUE, lines |-> SubSeq(lines, 1, n)]
                 /\ Uncaught("write")
            ELSE /\ Uncaught("open")
                 /\ UNCHANGED log_file
    /\ UNCHANGED <<entry, argv, listing, invoice_groups, unprocessed_files, unpaired_files,
                   scan_i, group_i, fs, dirs>>
    /\ UNCHANGED <<jpegVars, callVars>>

(* ------------------------------------------------------------------ *)
(* convert_jpegs_to_pdf                                                *)
(* ------------------------------------------------------------------ *)

\* the test of line 127 on a name
IsJpegName(name) == EndsWith(Lower(name), ExtJpg) \/ EndsWith(Lower(name), ExtJpeg)

\* the list comprehension of line 127 over the entries from i on
RECURSIVE JpegFiles(_, _)
JpegFiles(entries, i) ==
    IF i > Len(entries) THEN <<>>
    ELSE (IF IsJpegName(entries[i].name) THEN <<entries[i].name>> ELSE <<>>)
            \o JpegFiles(entries, i + 1)

\* lines 144-150: the naming stem of an image with OCR text text
BaseName(file, text) ==
    LET date_str == SearchDate(text)
    IN  IF date_str # None THEN date_str ELSE SplitextStem(file)

\* f"{base_name}_{counter}.pdf"
CounterName(base_name, counter) == base_name \o <<"_">> \o IntToStr(counter) \o ExtPdf

\* WhileExists as an if: the counter is appended once, whether or not the
\* name it gives is free
WhileExistsOnce(base_name, output_filename, counter) ==
    IF PathExists(Join(JpegOutputFolder, output_filename))
    THEN CounterName(base_name, counter)
    ELSE output_filename

\* the while loop of lines 156-159, entered with output_filename and
\* counter: the output_filename it leaves with
RECURSIVE WhileExists(_, _, _)
WhileExists(base_name, output_filename, counter) ==
    IF PathExists(Join(JpegOutputFolder, output_filename))
    THEN WhileExists(base_name, CounterName(base_name, counter), counter + 1)
    ELSE output_filename

\* lines 152-159: the output file name chosen for a stem
OutputFilename(base_name) == WhileExists(base_name, base_name \o ExtPdf, 1)

\* what im.save can do: the file is written; the file cannot be opened
\* (always so when its directory does not exist); or the file is created
\* and the encoder raises, leaving a truncated file
SaveOutcomes(output_path) ==
    IF Dirname(output_path) \in dirs THEN {"ok", "open_fails", "write_fails"}
    ELSE {"no_directory"}

\* lines 127-130: the listing and the output folder.  Neither os.listdir
\* nor os.makedirs is inside a try
JpegStart ==
    /\ pc = "jpeg_listdir"
    /\ \E step \in {"ok", "listdir_fails", "makedirs_fails"} :
        CASE step = "listdir_fails" ->
                /\ Uncaught("os.listdir")
                /\ UNCHANGED <<jpeg_files, jpeg_i, dirs>>
          [] step = "makedirs_fails" /\ ~PathExists(JpegOutputFolder) ->
                /\ Uncaught("os.makedirs")
                /\ jpeg_files' = JpegFiles(listing, 1)
                /\ UNCHANGED <<jpeg_i, dirs>>
          [] OTHER ->
                /\ jpeg_files' = JpegFiles(listing, 1)
                /\ dirs' = IF PathExists(JpegOutputFolder) THEN dirs
                           ELSE dirs \cup {JpegOutputFolder}
                /\ jpeg_i' = 1
                /\ pc' = "jpeg_loop"
                /\ UNCHANGED console
    /\ UNCHANGED <<entry, argv, listing, fs>>
    /\ UNCHANGED <<pdfVars, callVars>>

\* lines 135-167: one iteration of the loop over jpeg_files
ConvertJpeg ==
    /\ pc = "jpeg_loop"
    /\ jpeg_i <= Len(jpeg_files)
    /\ LET file == jpeg_files[jpeg_i]
           file_path == Join(FolderPath, file)
           im == FileAt(file_path)
           text == im.pages[1].text
           base_name == BaseName(file, text)
           output_filename == OutputFilename(base_name)
           output_path == Join(JpegOutputFolder, output_filename)
           noted == IF SearchDate(text) = None
                    THEN Append(console, Msg("No date found in", file))
                    ELSE console
       IN  IF ~im.opens \/ ~im.pages[1].ok
           THEN /\ console' = Append(console, Err("Error processing", file_path,
                                    IF ~im.opens THEN "Image.open" ELSE "image_to_string"))
                /\ UNCHANGED fs
           ELSE \E save \in SaveOutcomes(output_path) :
                    /\ fs' = CASE save = "ok" ->
                                    WriteFile(fs, output_path,
                                        [pages |-> PagesAdded(file_path, 1), complete |-> TRUE])
                               [] save = "write_fails" ->
                                    WriteFile(fs, output_path,
                                        [pages |-> <<>>, complete |-> FALSE])
                               [] OTHER -> fs
                    /\ console' = IF save = "ok"
                                  THEN Append(noted, Msg2("Converted", file, output_filename))
                                  ELSE Append(noted, Err("Error processing", file_path, save))
    /\ jpeg_i' = jpeg_i + 1
    /\ UNCHANGED <<pc, entry, argv, listing, dirs, jpeg_files>>
    /\ UNCHANGED <<pdfVars, callVars>>

\* the end of the loop: the function returns
JpegReturn ==
    /\ pc = "jpeg_loop"
    /\ jpeg_i > Len(jpeg_files)
    /\ pc' = Return("exit")
    /\ UNCHANGED <<entry, argv, listing, console, fs, dirs>>
    /\ UNCHANGED <<pdfVars, jpegVars, callVars>>

(* ------------------------------------------------------------------ *)
(* The main section                                                    *)
(* ------------------------------------------------------------------ *)

\* lines 174-181: the usage test, then process_pdf_folder
Main ==
    /\ pc = "main"
    /\ IF Len(argv) < 2
       THEN /\ console' = Append(console, Msg("Usage: python script.py <folder_path>", None))
            /\ pc' = "exit"
       ELSE /\ pc' = "pdf_listdir"
            /\ UNCHANGED console
    /\ UNCHANGED <<entry, argv, listing, fs, dirs>>
    /\ UNCHANGED <<pdfVars, jpegVars, callVars>>

\* a call of extract_invoice_number_from_pdf on its own
CallExtract ==
    /\ pc = "call_extract"
    /\ pdf_out' = ExtractInvoiceNumberFromPdf(pdf_in)
    /\ console' = IF ExtractInvoiceNumberFromPdf(pdf_in).error # ""
                  THEN Append(console, Err("Error processing", Join(FolderPath, pdf_in.name),
                                           ExtractInvoiceNumberFromPdf(pdf_in).error))
                  ELSE console
    /\ pc' = "returned"
    /\ UNCHANGED <<entry, argv, listing, fs, dirs, pdf_in>>
    /\ UNCHANGED <<pdfVars, jpegVars>>

(* ------------------------------------------------------------------ *)
(* Bounds and inputs                                                   *)
(* ------------------------------------------------------------------ *)

\* the most entries a folder holds
MaxFiles == 3

\* the most pages of a PDF handed to the extraction on its own
MaxPages == 2

\* the PDFs, and what is not one, that a folder of invoices may hold
PdfCatalog ==
    { File(<<"a",".","p","d","f">>, <<Page(TxtA)>>),
      File(<<"b",".","P","D","F">>, <<Page(TxtNone), Page(TxtA)>>),
      File(<<"c",".","p","d","f">>, <<Page(TxtBA)>>),
      File(<<"e",".","p","d","f">>, <<Page(TxtNone)>>),
      File(<<"f",".","p","d","f">>, <<OcrFails, Page(TxtA)>>),
      [File(<<"g",".","p","d","f">>, <<Page(TxtB)>>) EXCEPT !.raster = FALSE],
      File(<<"h",".","t","x","t">>, <<Page(TxtA)>>),
      [File(<<"i",".","p","d","f">>, <<>>) EXCEPT !.isfile = FALSE, !.raster = FALSE, !.opens = FALSE],
      File(<<"j",".","p","d","f">>, <<Page(TxtA), Page(TxtB)>>) }

\* a folder of two invoices with their proofs of payment and one scan
\* without an id: the ids are A, A, B, B and none
PairsCatalog ==
    { File(<<"a",".","p","d","f">>, <<Page(TxtA)>>),
      File(<<"b",".","P","D","F">>, <<Page(TxtNone), Page(TxtA)>>),
      File(<<"c",".","p","d","f">>, <<Page(TxtBA)>>),
      File(<<"k",".","p","d","f">>, <<Page(TxtB)>>),
      File(<<"e",".","p","d","f">>, <<Page(TxtNone)>>) }

\* the images, and what is not one, that a folder of receipts may hold
JpegCatalog ==
    { File(<<"r",".","j","p","g">>, <<Page(TxtDot)>>),
      File(<<"s",".","j","p","e","g">>, <<Page(TxtDot2)>>),
      File(<<"t",".","J","P","G">>, <<Page(DateSlash)>>),
      File(<<"u",".","j","p","g">>, <<Page(TxtNone)>>),
      File(<<"u",".","j","p","e","g">>, <<Page(TxtGlued)>>),
      File(<<"v",".","j","p","g">>, <<Page(DateDash)>>),
      [File(<<"x",".","j","p","g">>, <<OcrFails>>) EXCEPT !.isfile = FALSE, !.raster = FALSE, !.opens = FALSE] }

\* the entries of a folder run through both pipelines
RunCatalog ==
    { f \in PdfCatalog \cup JpegCatalog : f.name[1] \in {"a", "b", "c", "r", "s", "t"} }
        \cup { File(<<"y",".","p","n","g">>, <<Page(DateDot)>>) }

\* the listings os.listdir can give of a folder holding at most n entries
\* of cat: in any order, no name twice
ListingsUpTo(cat, n) ==
    UNION { {l \in [1..m -> cat] : \A i, j \in 1..m : i < j => l[i].name # l[j].name}
            : m \in 0..n }

Listings(cat) == ListingsUpTo(cat, MaxFiles)

\* what jpeg_output_pdfs may hold before the run
OldFile == [pages |-> <<[src |-> <<"o","l","d">>, idx |-> 1]>>, complete |-> TRUE]
OldDot  == Join(JpegOutputFolder, DateDot \o ExtPdf)
OldU1   == Join(JpegOutputFolder, <<"u","_","1">> \o ExtPdf)
OldDirs == { Join(JpegOutputFolder, <<"1","9">>), Join(JpegOutputFolder, <<"1","9","/","1","1">>) }
OldFolders ==
    { [files |-> {}, dirs |-> {FolderPath}],
      [files |-> {OldDot, OldU1}, dirs |-> {FolderPath, JpegOutputFolder} \cup OldDirs] }

\* the outcomes pytesseract can have on one page
PageOutcomes ==
    { Page(TxtNone), Page(TxtA), Page(TxtB), Page(TxtBA), Page(TxtC), Page(TxtLower),
      Page(TxtShort), Page(TxtLong), OcrFails }

\* the PDFs handed to the extraction on its own
ExtractInputs ==
    { [File(<<"p",".","p","d","f">>, pages) EXCEPT !.raster = r] :
        pages \in UNION {[1..n -> PageOutcomes] : n \in 0..MaxPages}, r \in BOOLEAN }

NoResult == [invoice_number |-> None, ocr |-> <<>>, error |-> ""]

(* ------------------------------------------------------------------ *)
(* Specifications                                                      *)
(* ------------------------------------------------------------------ *)

\* the state before the first statement, common to every way in
Start(what, at) ==
    /\ entry = what
    /\ pc = at
    /\ console = <<>>
    /\ invoice_groups = <<>>
    /\ unprocessed_files = <<>>
    /\ unpaired_files = <<>>
    /\ scan_i = 1
    /\ group_i = 1
    /\ log_file = [written |-> FALSE, lines |-> <<>>]
    /\ jpeg_files = <<>>
    /\ jpeg_i = 1
    /\ pdf_out = NoResult

\* python main.py [folder]
Init ==
    /\ Start("main", "main")
    /\ argv \in {<<"main.py">>, <<"main.py", FolderPath>>}
    /\ listing \in Listings(RunCatalog)
    /\ fs = <<>>
    /\ dirs = {FolderPath}
    /\ pdf_in = File(<<>>, <<>>)

\* process_pdf_folder(folder)
InitPdf ==
    /\ Start("process_pdf_folder", "pdf_listdir")
    /\ argv = <<"main.py", FolderPath>>
    /\ \/ /\ listing \in Listings(PdfCatalog)
          /\ dirs \in {{FolderPath}, {FolderPath, OutputFolder}}
       \/ /\ listing \in ListingsUpTo(PairsCatalog, Cardinality(PairsCatalog))
          /\ dirs = {FolderPath}
    /\ fs = <<>>
    /\ pdf_in = File(<<>>, <<>>)

\* convert_jpegs_to_pdf(folder)
InitJpeg ==
    /\ Start("convert_jpegs_to_pdf", "jpeg_listdir")
    /\ argv = <<"main.py", FolderPath>>
    /\ listing \in Listings(JpegCatalog)
    /\ \E old \in OldFolders :
        /\ fs = [p \in old.files |-> OldFile]
        /\ dirs = old.dirs
    /\ pdf_in = File(<<>>, <<>>)

\* extract_invoice_number_from_pdf(path)
InitExtract ==
    /\ Start("extract_invoice_number_from_pdf", "call_extract")
    /\ argv = <<"main.py", FolderPath>>
    /\ listing = <<>>
    /\ fs = <<>>
    /\ dirs = {FolderPath}
    /\ pdf_in \in ExtractInputs

NextPdf == PdfListDir \/ ScanFile \/ PdfMakeOutputFolder \/ GroupStep \/ WriteLog

NextJpeg == JpegStart \/ ConvertJpeg \/ JpegReturn

NextExtract == CallExtract

Next == Main \/ NextPdf \/ NextJpeg

Spec == Init /\ [][Next]_vars

SpecPdf == InitPdf /\ [][NextPdf]_vars

SpecJpeg == InitJpeg /\ [][NextJpeg]_vars

SpecExtract == InitExtract /\ [][NextExtract]_vars

(* ------------------------------------------------------------------ *)
(* Claims about extract_invoice_number_from_pdf (SpecExtract)          *)
(* ------------------------------------------------------------------ *)

\* a string of the form RE-DDDD-DD
IsInvoiceId(str) ==
    /\ Len(str) = 10
    /\ str[1] = "R" /\ str[2] = "E" /\ str[3] = "-" /\ str[8] = "-"
    /\ \A k \in {4, 5, 6, 7, 9, 10} : str[k] \in Digits

\* the positions of text where an invoice id stands
IdPositions(text) ==
    {i \in 1..(Len(text) - 9) : IsInvoiceId(SubSeq(text, i, i + 9))}

\* whether a page was read by OCR and its text holds an invoice id
PageHasId(page) == page.ok /\ IdPositions(page.text) # {}

\* C10: the pages are passed to OCR in page order, one call each, up to
\* and including the first page whose text holds an invoice id and no
\* further; the id returned is the leftmost one of that page; and None is
\* returned only when every page was scanned without a match or an error
\* was reported.
C10_StopsAtFirstMatch ==
    pc = "returned" =>
        LET pages == pdf_in.pages
            calls == pdf_out.ocr
            id == pdf_out.invoice_number
            last == Len(calls)
        IN  /\ calls = [i \in 1..last |-> i]
            /\ last <= Len(pages)
            /\ \A i \in 1..(last - 1) : ~PageHasId(pages[i])
            /\ id # None =>
                /\ last >= 1
                /\ PageHasId(pages[last])
                /\ \E i \in IdPositions(pages[last].text) :
                    /\ id = SubSeq(pages[last].text, i, i + 9)
                    /\ \A j \in IdPositions(pages[last].text) : i <= j
            /\ id = None =>
                \/ pdf_out.error # ""
                \/ last = Len(pages) /\ \A i \in 1..Len(pages) : ~PageHasId(pages[i])

\* a PDF whose first page holds two ids and whose second page holds one:
\* only the first page is passed to OCR and its leftmost id is returned
C10_Witness ==
    /\ pc = "returned"
    /\ Len(pdf_in.pages) = 2
    /\ pdf_in.pages[1] = Page(TxtBA)
    /\ PageHasId(pdf_in.pages[2])
    /\ pdf_out.ocr = <<1>>
    /\ pdf_out.invoice_number = TxtB

\* the PDF with every page on which OCR raises replaced by a page of
\* empty text
WithFailuresAsEmpty(f) ==
    [f EXCEPT !.pages = [i \in DOMAIN f.pages |->
                            IF f.pages[i].ok THEN f.pages[i] ELSE Page(<<>>)]]

\* C7 as stated: when OCR raises on a page, the id extracted from the file
\* is the one extracted had that page yielded empty text, so that a match
\* on a later page is still found.
C7_OcrFailureIsEmptyText ==
    (pc = "returned" /\ pdf_in.raster) =>
        pdf_out.invoice_number
            = ExtractInvoiceNumberFromPdf(WithFailuresAsEmpty(pdf_in)).invoice_number

(* ------------------------------------------------------------------ *)
(* Claims about process_pdf_folder (SpecPdf)                           *)
(* ------------------------------------------------------------------ *)

\* a name with a .pdf extension, in any case
HasPdfExtension(name) ==
    /\ Len(name) >= 4
    /\ name[Len(name) - 3] = "."
    /\ name[Len(name) - 2] \in {"p", "P"}
    /\ name[Len(name) - 1] \in {"d", "D"}
    /\ name[Len(name)] \in {"f", "F"}

\* the entries of the folder that are regular files with a .pdf extension
ScannedPdfs == {i \in DOMAIN listing : listing[i].isfile /\ HasPdfExtension(listing[i].name)}

PathOf(i) == FolderPath \o <<"/">> \o listing[i].name

\* the invoice id extracted from the i-th entry
IdOf(i) == ExtractInvoiceNumberFromPdf(listing[i]).invoice_number

\* the scanned PDFs that hold the id
Sharing(id) == {i \in ScannedPdfs : IdOf(i) = id}

\* the ids extracted from the scanned PDFs
ExtractedIds == {IdOf(i) : i \in ScannedPdfs} \ {None}

\* <folder>/output_pdfs/Invoice_<id>.pdf
InvoiceOutput(id) ==
    FolderPath \o <<"/","o","u","t","p","u","t","_","p","d","f","s","/",
                    "I","n","v","o","i","c","e","_">> \o id \o <<".","p","d","f">>

\* the lines merge_pdfs printed at the end of a call for the output path
MergeLines(path) ==
    {k \in DOMAIN console :
        console[k].msg \in {"Created merged PDF", "Error writing PDF"} /\ console[k].arg = path}

\* the lines of log.txt that report the file as unpaired for the id
UnpairedLines(id, fname) ==
    {k \in DOMAIN log_file.lines :
        log_file.lines[k] = [prefix |-> "Unpaired for invoice", id |-> id, fname |-> fname]}

\* C1: when process_pdf_folder has returned, merge_pdfs was called once
\* for every id that two or more scanned files share and for no other
\* output; a file that holds its id alone is not merged, none of its pages
\* is in any written file, and log.txt reports it as unpaired once.
C1_MergesExactlySharedIds ==
    pc = "returned" =>
        /\ \A id \in ExtractedIds :
            IF Cardinality(Sharing(id)) >= 2
            THEN Cardinality(MergeLines(InvoiceOutput(id))) = 1
            ELSE /\ MergeLines(InvoiceOutput(id)) = {}
                 /\ InvoiceOutput(id) \notin DOMAIN fs
                 /\ \A i \in Sharing(id) :
                    /\ \A p \in DOMAIN fs : \A k \in DOMAIN fs[p].pages :
                            fs[p].pages[k].src # PathOf(i)
                    /\ Cardinality(UnpairedLines(id, listing[i].name)) = 1
        /\ \A k \in DOMAIN console :
            console[k].msg \in {"Created merged PDF", "Error writing PDF"} =>
                \E id \in ExtractedIds :
                    Cardinality(Sharing(id)) >= 2 /\ console[k].arg = InvoiceOutput(id)
        /\ \A p \in DOMAIN fs :
                \E id \in ExtractedIds : Cardinality(Sharing(id)) >= 2 /\ p = InvoiceOutput(id)

\* ids A, A, B and a file without id: A is merged from two files, B is
\* only logged
C1_Witness ==
    /\ pc = "returned"
    /\ \E i \in ScannedPdfs : IdOf(i) = None
    /\ \E a, b \in ExtractedIds :
        /\ Cardinality(Sharing(a)) = 2
        /\ Cardinality(Sharing(b)) = 1
        /\ MergeLines(InvoiceOutput(a)) # {}
        /\ InvoiceOutput(a) \in DOMAIN fs
        /\ \E i \in Sharing(b) : UnpairedLines(b, listing[i].name) # {}

\* the places the i-th entry is held at: the positions of the groups that
\* hold its path and the positions of the unidentified list that hold
\* its name
PlacesInGroups(i) ==
    {<<g, j>> \in (DOMAIN invoice_groups) \X (1..Len(listing)) :
        j <= Len(invoice_groups[g].files) /\ invoice_groups[g].files[j] = PathOf(i)}

PlacesUnidentified(i) ==
    {j \in DOMAIN unprocessed_files : unprocessed_files[j] = listing[i].name}

\* C2: at every point of the scan loop and after it, a scanned PDF
\* processed so far is held at exactly one place, in one group or in the
\* unidentified list; every other entry, and every entry not yet
\* processed, is held nowhere; and the groups and the list hold nothing
\* else.
C2_EveryPdfInOnePlace ==
    /\ \A i \in DOMAIN listing :
        Cardinality(PlacesInGroups(i)) + Cardinality(PlacesUnidentified(i))
            = IF i < scan_i /\ i \in ScannedPdfs THEN 1 ELSE 0
    /\ \A g \in DOMAIN invoice_groups : \A j \in DOMAIN invoice_groups[g].files :
            \E i \in DOMAIN listing : invoice_groups[g].files[j] = PathOf(i)
    /\ \A j \in DOMAIN unprocessed_files :
            \E i \in DOMAIN listing : unprocessed_files[j] = listing[i].name
    /\ \A g, h \in DOMAIN invoice_groups :
            invoice_groups[g].key = invoice_groups[h].key => g = h

\* in the scan loop, after a PDF that went to a group, a second PDF that
\* joined it, and an entry that is no PDF file
C2_Witness ==
    /\ pc = "scan"
    /\ scan_i = 4
    /\ \E g \in DOMAIN invoice_groups : Len(invoice_groups[g].files) = 2
    /\ \E i \in 1..3 : i \notin ScannedPdfs

\* every page of the entries in S, file after file in folder-scan order
\* from entry i on, each file's pages in page order
RECURSIVE PagesInScanOrder(_, _)
PagesInScanOrder(S, i) ==
    IF i > Len(listing) THEN <<>>
    ELSE (IF i \in S
          THEN [k \in 1..Len(listing[i].pages) |-> [src |-> PathOf(i), idx |-> k]]
          ELSE <<>>)
            \o PagesInScanOrder(S, i + 1)

\* the lines that report a read failure on the i-th entry
ReadErrorLines(i) ==
    {k \in DOMAIN console : console[k].msg = "Error reading" /\ console[k].arg = PathOf(i)}

\* the group of the id was merged and written without any failure
MergedCleanly(id) ==
    /\ \E k \in MergeLines(InvoiceOutput(id)) : console[k].msg = "Created merged PDF"
    /\ \A i \in Sharing(id) : ReadErrorLines(i) = {}

RECURSIVE SumPages(_)
SumPages(S) ==
    IF S = {} THEN 0
    ELSE LET i == CHOOSE x \in S : TRUE IN Len(listing[i].pages) + SumPages(S \ {i})

\* C3: a group merged without a read or write failure gives an output
\* holding exactly the pages of its files, file after file in folder-scan
\* order and page after page within a file: as many pages as the files
\* have together, none twice.
C3_MergedPagesInOrder ==
    \A id \in ExtractedIds :
        MergedCleanly(id) =>
            /\ InvoiceOutput(id) \in DOMAIN fs
            /\ fs[InvoiceOutput(id)].complete
            /\ fs[InvoiceOutput(id)].pages = PagesInScanOrder(Sharing(id), 1)
            /\ Len(fs[InvoiceOutput(id)].pages) = SumPages(Sharing(id))
            /\ Cardinality(Range(fs[InvoiceOutput(id)].pages)) = Len(fs[InvoiceOutput(id)].pages)

\* f1 with two pages listed before f2 with one page: [f1p1, f1p2, f2p1]
C3_Witness ==
    \E id \in ExtractedIds : \E i, j \in Sharing(id) :
        /\ MergedCleanly(id)
        /\ i < j
        /\ Len(listing[i].pages) = 2 /\ Len(listing[j].pages) = 1
        /\ fs[InvoiceOutput(id)].pages =
                << [src |-> PathOf(i), idx |-> 1], [src |-> PathOf(i), idx |-> 2],
                   [src |-> PathOf(j), idx |-> 1] >>

\* the id extracted from every scanned PDF, by its position in the folder
ScannedIds == [i \in ScannedPdfs |-> IdOf(i)]

\* the "No invoice found" entries of the scanned PDFs without an invoice
\* number from entry i on, in folder-scan order
RECURSIVE UnidentifiedEntries(_, _)
UnidentifiedEntries(ids, i) ==
    IF i > Len(listing) THEN <<>>
    ELSE (IF i \in DOMAIN ids /\ ids[i] = None
          THEN <<[prefix |-> "No invoice found", id |-> None, fname |-> listing[i].name]>>
          ELSE <<>>)
            \o UnidentifiedEntries(ids, i + 1)

\* the scanned PDFs that hold an id no other scanned PDF holds
LoneFiles(ids) ==
    {i \in DOMAIN ids : ids[i] # None /\ \A j \in DOMAIN ids : j # i => ids[j] # ids[i]}

\* the scanned PDFs that share their id with another scanned PDF
GroupedFiles(ids) ==
    {i \in DOMAIN ids : ids[i] # None /\ \E j \in DOMAIN ids : j # i /\ ids[j] = ids[i]}

\* the entries of the unpaired files from entry i on, in the order their
\* ids are first seen, which is the order of the files in the folder
\* since an unpaired file is the only holder of its id
RECURSIVE UnpairedEntries(_, _)
UnpairedEntries(ids, i) ==
    IF i > Len(listing) THEN <<>>
    ELSE (IF i \in LoneFiles(ids)
          THEN <<[prefix |-> "Unpaired for invoice", id |-> ids[i], fname |-> listing[i].name]>>
          ELSE <<>>)
            \o UnpairedEntries(ids, i + 1)

\* the whole content of log.txt for the scanned folder: the header line,
\* the unidentified entries, then the unpaired entries
ExpectedLog(ids) ==
    <<[prefix |-> "Files without an identifiable invoice number or not paired:",
       id |-> None, fname |-> None]>>
        \o UnidentifiedEntries(ids, 1) \o UnpairedEntries(ids, 1)

\* C5: when process_pdf_folder has returned, log.txt holds its header
\* line, then one "No invoice found" entry for every unidentified file in
\* folder-scan order, then one "Unpaired for invoice" entry for every
\* unpaired file in the order the ids were first seen; and whatever was
\* written of log.txt, also by a run that a failing write ended, is a
\* leading part of that content: every unidentified entry precedes every
\* unpaired entry, and no file of a mergeable group has an entry.
C5_LogOrder ==
    log_file.written =>
        LET lines == log_file.lines
            ids == ScannedIds
            expected == ExpectedLog(ids)
        IN  /\ Len(lines) <= Len(expected)
            /\ lines = SubSeq(expected, 1, Len(lines))
            /\ pc = "returned" => lines = expected
            /\ \A j, k \in 2..Len(lines) :
                (lines[j].prefix = "No invoice found" /\ lines[k].prefix = "Unpaired for invoice")
                    => j < k
            /\ \A i \in GroupedFiles(ids) :
                \A k \in 2..Len(lines) : lines[k].fname # listing[i].name

\* the function has returned with a log that lists an unidentified file
\* before the unpaired one that precedes it in the folder, and a group
\* was merged
C5_Witness ==
    /\ pc = "returned"
    /\ log_file.written
    /\ \E id \in ExtractedIds : Cardinality(Sharing(id)) >= 2
    /\ \E i, j \in ScannedPdfs :
        /\ i < j
        /\ Cardinality(Sharing(IdOf(i))) = 1
        /\ IdOf(j) = None
        /\ Len(log_file.lines) >= 3
        /\ log_file.lines[2].fname = listing[j].name
        /\ log_file.lines[3].fname = listing[i].name

\* the cnt[i] leading pages of each entry i in S, file after file in
\* folder-scan order from entry i on
RECURSIVE LeadingPages(_, _, _)
LeadingPages(S, cnt, i) ==
    IF i > Len(listing) THEN <<>>
    ELSE (IF i \in S
          THEN [k \in 1..cnt[i] |-> [src |-> PathOf(i), idx |-> k]]
          ELSE <<>>)
            \o LeadingPages(S, cnt, i + 1)

\* the most pages a file of the folder has
MostPages == CHOOSE n \in 0..9 : /\ \A i \in DOMAIN listing : Len(listing[i].pages) <= n
                                 /\ n = 0 \/ \E i \in DOMAIN listing : Len(listing[i].pages) = n

\* the output of the id holds, in group order, all pages of the files
\* read without failure and only leading pages, short of all, of the
\* files whose read failed
HoldsAllButFailedReads(id) ==
    LET S == Sharing(id)
    IN  \E cnt \in [S -> 0..MostPages] :
            /\ \A i \in S :
                IF ReadErrorLines(i) = {}
                THEN cnt[i] = Len(listing[i].pages)
                ELSE cnt[i] = 0 \/ cnt[i] < Len(listing[i].pages)
            /\ fs[InvoiceOutput(id)].pages = LeadingPages(S, cnt, 1)

\* C9: a read failure on a source of a mergeable group is reported and
\* leaves out pages of that source only, the output still being written
\* from the others in group order, down to no page at all; a write
\* failure is reported, and whatever failed every mergeable group gets
\* its merge and log.txt is written when the function returns.
C9_FailuresStayLocal ==
    /\ \A id \in ExtractedIds :
        (\E k \in MergeLines(InvoiceOutput(id)) : console[k].msg = "Created merged PDF") =>
            /\ InvoiceOutput(id) \in DOMAIN fs
            /\ fs[InvoiceOutput(id)].complete
            /\ HoldsAllButFailedReads(id)
    /\ \A g \in DOMAIN invoice_groups :
        (g < group_i /\ Len(invoice_groups[g].files) >= 2) =>
            Cardinality(MergeLines(InvoiceOutput(invoice_groups[g].key))) = 1
    /\ pc = "returned" =>
        /\ group_i = Len(invoice_groups) + 1
        /\ log_file.written

\* two mergeable groups: the writing of the first output fails, the
\* second is written although one of its two sources could not be read,
\* and log.txt is written
C9_Witness ==
    /\ pc = "returned"
    /\ log_file.written
    /\ \E a, b \in ExtractedIds :
        /\ \E k \in MergeLines(InvoiceOutput(a)), m \in MergeLines(InvoiceOutput(b)) :
            /\ k < m
            /\ console[k].msg = "Error writing PDF"
            /\ console[m].msg = "Created merged PDF"
        /\ Cardinality(Sharing(b)) = 2
        /\ \E i \in Sharing(b) : ReadErrorLines(i) # {}
        /\ Len(fs[InvoiceOutput(b)].pages) = 1

(* ------------------------------------------------------------------ *)
(* Claims about convert_jpegs_to_pdf (SpecJpeg)                        *)
(* ------------------------------------------------------------------ *)

\* <folder>/jpeg_output_pdfs/<stem>.pdf for n = 0, <stem>_n.pdf for n >= 1
StemPath(stem, n) ==
    FolderPath \o <<"/","j","p","e","g","_","o","u","t","p","u","t","_","p","d","f","s","/">>
        \o stem \o (IF n = 0 THEN <<>> ELSE <<"_">> \o IntToStr(n)) \o <<".","p","d","f">>

\* the OCR text of the image of that name
TextOf(file) == (CHOOSE f \in Range(listing) : f.name = file).pages[1].text

\* the naming stem of the image: the date token of its text, else its name
\* without extension
StemOf(file) ==
    LET date == SearchDate(TextOf(file))
    IN  IF date # None THEN date ELSE SplitextStem(file)

\* the content of the PDF converted from the image
ConvertedFrom(file) ==
    [pages |-> <<[src |-> FolderPath \o <<"/">> \o file, idx |-> 1]>>, complete |-> TRUE]

\* no step changes or removes a file that exists
NoOverwriteStep == \A p \in DOMAIN fs : p \in DOMAIN fs' /\ fs'[p] = fs[p]

\* a step of the loop that writes a file writes one file, at <stem>.pdf
\* when that is free and else at <stem>_N.pdf for the smallest N >= 1
\* that is free
SmallestFreeStep ==
    (pc = "jpeg_loop" /\ fs' # fs) =>
        LET stem == StemOf(jpeg_files[jpeg_i])
        IN  \E n \in 0..Cardinality(DOMAIN fs) :
                /\ DOMAIN fs' = (DOMAIN fs) \cup {StemPath(stem, n)}
                /\ ~PathExists(StemPath(stem, n))
                /\ \A m \in 0..(n - 1) : PathExists(StemPath(stem, m))

\* the files of jpeg_output_pdfs named <stem>.pdf or <stem>_N.pdf
Family(stem) ==
    {p \in DOMAIN fs : \E n \in 0..Cardinality(DOMAIN fs) : p = StemPath(stem, n)}

\* the lines that report a conversion
ConvertedLines == {k \in DOMAIN console : console[k].msg = "Converted"}

\* every conversion reported so far has its own file, which still holds
\* the image it was converted from; and when the files named after a stem
\* all come from conversions of images of that stem, k of them are
\* <stem>.pdf, <stem>_1.pdf, ..., <stem>_(k-1).pdf
DistinctOutputs ==
    /\ \A k \in ConvertedLines :
        /\ fs[JpegOutputFolder \o <<"/">> \o console[k].out] = ConvertedFrom(console[k].arg)
        /\ \A m \in ConvertedLines : console[m].out = console[k].out => m = k
    /\ \A k \in ConvertedLines :
        LET stem == StemOf(console[k].arg)
            family == Family(stem)
        IN  \/ family = {StemPath(stem, n) : n \in 0..(Cardinality(family) - 1)}
            \/ \E p \in family :
                    \A m \in ConvertedLines :
                        fs[p] = ConvertedFrom(console[m].arg) => StemOf(console[m].arg) # stem

\* C4: a conversion never writes to a path that exists, whether the file
\* there was written earlier in the run or was there before it; the name
\* chosen is <stem>.pdf if free and else <stem>_N.pdf for the smallest
\* free N >= 1; so k conversions of one stem give k distinct files, none
\* overwriting another.
C4_NeverOverwrites == [][NoOverwriteStep /\ SmallestFreeStep]_vars /\ []DistinctOutputs

\* two images of one date stem converted in a folder that already held
\* <stem>.pdf: they are <stem>_1.pdf and <stem>_2.pdf, and the old file
\* is as it was
C4_Witness ==
    /\ StemPath(DateDot, 0) \in DOMAIN fs
    /\ fs[StemPath(DateDot, 0)] = OldFile
    /\ \E k, m \in ConvertedLines :
        /\ k # m
        /\ StemPath(DateDot, 1) \in DOMAIN fs /\ StemPath(DateDot, 2) \in DOMAIN fs
        /\ fs[StemPath(DateDot, 1)] = ConvertedFrom(console[k].arg)
        /\ fs[StemPath(DateDot, 2)] = ConvertedFrom(console[m].arg)

\* the lines that report a failure of the collaborators or of the disk
\* on the image: it does not open, OCR raises, or the file cannot be
\* opened or written in its existing directory
IoErrorLines(file) ==
    {k \in DOMAIN console :
        /\ console[k].msg = "Error processing"
        /\ console[k].arg = FolderPath \o <<"/">> \o file
        /\ console[k].err \in {"Image.open", "image_to_string", "open_fails", "write_fails"}}

\* C8 as stated: an image whose text holds a date token, whatever its two
\* separators, gets an output file <folder>/jpeg_output_pdfs/<stem>[_N].pdf
\* with the matched date as the stem, and an image without date token one
\* with its name without extension as the stem (images on which a
\* collaborator or the disk failed aside).
C8_DateNamedOutput ==
    pc = "returned" =>
        \A j \in DOMAIN jpeg_files :
            IoErrorLines(jpeg_files[j]) = {} =>
                LET stem == StemOf(jpeg_files[j])
                IN  \E n \in 0..Cardinality(DOMAIN fs) :
                        /\ StemPath(stem, n) \in DOMAIN fs
                        /\ fs[StemPath(stem, n)] = ConvertedFrom(jpeg_files[j])

(* ------------------------------------------------------------------ *)
(* Claims about the whole run (Spec)                                   *)
(* ------------------------------------------------------------------ *)

\* C6 as stated: given a folder argument, no failure ends the run: it goes
\* on through the invoice pipeline and the JPEG pipeline.
C6_NoFailureIsFatal == Len(argv) >= 2 => pc # "crashed"

====
